---- MODULE Spec2Model ----
(***************************************************************************)
(* Model of politzerSample.c: the command line calculator.                 *)
(*                                                                         *)
(* evalExpression is modelled as a state machine: one step per iteration   *)
(* of the parse loop, one for the operand/operator count check, one per    *)
(* iteration of the fold loops, one for the store into *result and one for *)
(* the frees and the return.                                               *)
(*                                                                         *)
(* A C string is a sequence of one-character strings.  A double is an      *)
(* exact fraction <<n, d>> in lowest terms with d > 0; the values the      *)
(* bounded inputs produce are far from the range where rounding, overflow  *)
(* or DBL_MAX matter.  Allocation is taken to succeed (realloc and calloc  *)
(* return non-NULL), so the exit(EXIT_FAILURE) paths are not modelled.     *)
(* C indices are kept 0-based; At(s, k) reads s[k] of the C array.         *)
(***************************************************************************)
EXTENDS Integers, Sequences, FiniteSets, TLC

\* ------------------------------------------------------------------------
\* Bounds of the model
\* ------------------------------------------------------------------------

\* longest line, in tokens, built from AnyTokens (valid or not)
MaxTokens == 4

\* most operands of a well-formed expression built from ExprOperands
MaxOperands == 4

\* the fold loop of lines 116-138 is cut after this many iterations beyond
\* the number of operators (never reached unless an operator is re-selected)
MaxExtraSteps == 2

\* ------------------------------------------------------------------------
\* Doubles as exact fractions
\* ------------------------------------------------------------------------

Abs(x) == IF x < 0 THEN -x ELSE x

RECURSIVE GCD(_, _)
GCD(a, b) == IF b = 0 THEN a ELSE GCD(b, a % b)

Norm(n, d) ==
    LET s == IF d < 0 THEN -1 ELSE 1
        g == GCD(Abs(n), Abs(d))
    IN  <<(s * n) \div g, (s * d) \div g>>

Zero == <<0, 1>>

RatAdd(a, b) == Norm(a[1] * b[2] + b[1] * a[2], a[2] * b[2])
RatSub(a, b) == Norm(a[1] * b[2] - b[1] * a[2], a[2] * b[2])
RatMul(a, b) == Norm(a[1] * b[1], a[2] * b[2])
RatDiv(a, b) == Norm(a[1] * b[2], a[2] * b[1])

\* DBL_MAX, the value applyOp returns for a division by zero: no fraction in
\* lowest terms has denominator 0, as no bounded expression evaluates to
\* DBL_MAX
DBL_MAX == <<1, 0>>

\* 2^26; DBL_EPSILON is 2^-52 = 1 / (TwoTo26 * TwoTo26)
TwoTo26 == 67108864

\* fabs(b) < DBL_EPSILON, i.e. d > |n| * 2^52, computed without overflow
fabsBelowEpsilon(b) ==
    IF b[1] = 0 THEN TRUE
    ELSE LET q  == b[2] \div Abs(b[1])
             r  == b[2] % Abs(b[1])
             hi == q \div TwoTo26
             lo == q % TwoTo26
         IN  hi > TwoTo26 \/ (hi = TwoTo26 /\ (lo > 0 \/ r > 0))

\* ------------------------------------------------------------------------
\* Strings and the pure functions of the program
\* ------------------------------------------------------------------------

At(s, k) == s[k + 1]

Digits == {"0", "1", "2", "3", "4", "5", "6", "7", "8", "9"}

isdigit(c) == c \in Digits

DigitVal(c) ==
    CASE c = "0" -> 0 [] c = "1" -> 1 [] c = "2" -> 2 [] c = "3" -> 3
      [] c = "4" -> 4 [] c = "5" -> 5 [] c = "6" -> 6 [] c = "7" -> 7
      [] c = "8" -> 8 [] c = "9" -> 9

\* the loop of validOperand from character k on, num_dec dots seen so far
RECURSIVE validOperandFrom(_, _, _)
validOperandFrom(str, k, num_dec) ==
    IF k >= Len(str) THEN num_dec <= 1
    ELSE IF ~isdigit(At(str, k)) /\ At(str, k) # "." THEN FALSE
    ELSE validOperandFrom(str, k + 1,
                          IF At(str, k) = "." THEN num_dec + 1 ELSE num_dec)

validOperand(str) == validOperandFrom(str, 0, 0)

OperatorChars == {"+", "-", "*", "/"}

\* strpbrk(str, "+-*/") != NULL
strpbrkOps(str) == \E k \in 0 .. Len(str) - 1 : At(str, k) \in OperatorChars

validOperator(str) == Len(str) = 1 /\ strpbrkOps(str)

\* atof of a token that passed validOperand: digits, at most one '.'
RECURSIVE atofFrom(_, _, _, _, _)
atofFrom(str, k, n, d, dot) ==
    IF k >= Len(str) THEN Norm(n, d)
    ELSE IF At(str, k) = "." THEN atofFrom(str, k + 1, n, d, TRUE)
    ELSE atofFrom(str, k + 1, n * 10 + DigitVal(At(str, k)),
                  IF dot THEN d * 10 ELSE d, dot)

atof(str) == atofFrom(str, 0, 0, 1, FALSE)

\* the consumed-operator sentinel, the char 0 of line 137
NUL == "NUL"

order_of_ops == <<"*", "/", "+", "-">>

RECURSIVE indexOfOpFrom(_, _, _, _)
indexOfOpFrom(ops, op, n, k) ==
    IF k >= n THEN -1
    ELSE IF At(ops, k) = op THEN k
    ELSE indexOfOpFrom(ops, op, n, k + 1)

indexOfOp(ops, op, n) == indexOfOpFrom(ops, op, n, 0)

applyOp(a, b, op) ==
    CASE op = "+" -> RatAdd(a, b)
      [] op = "-" -> RatSub(a, b)
      [] op = "*" -> RatMul(a, b)
      [] op = "/" -> IF fabsBelowEpsilon(b) THEN DBL_MAX ELSE RatDiv(a, b)
      [] OTHER    -> Zero

\* lines 128-129: mark both operands of the operator at op_dex
markEvaluated(ev, op_dex) ==
    [j \in 1 .. Len(ev) |-> IF j = op_dex + 1 \/ j = op_dex + 2
                            THEN TRUE ELSE ev[j]]

\* a bug: only the two operands of the operator receive the value
propagateAdjacentOnly(vals, ev, op_dex, temp_val) ==
    [j \in 1 .. Len(vals) |-> IF j = op_dex + 1 \/ j = op_dex + 2
                              THEN temp_val ELSE vals[j]]

\* lines 131-135: every slot marked evaluated receives the value; ev is the
\* marker array after lines 128-129
propagate(vals, ev, op_dex, temp_val) ==
    [j \in 1 .. Len(vals) |-> IF ev[j] THEN temp_val ELSE vals[j]]

\* a bug: the operator is left in place
consumeNothing(ops, op_dex) == ops

\* line 137: operators[op_dex] = 0
consume(ops, op_dex) == [ops EXCEPT ![op_dex + 1] = NUL]

\* a bug: the difference taken the wrong way round
missingLastOperandSwapped(err, n_operands, n_operators) ==
    ~err /\ n_operators - n_operands # 1

\* a bug: the count check made after a failed parse as well
missingLastOperandAlways(err, n_operands, n_operators) ==
    n_operands - n_operators # 1

\* the condition of line 98
missingLastOperand(err, n_operands, n_operators) ==
    ~err /\ n_operands - n_operators # 1

\* a bug: the expected category never alternates
toggleNever(p) == p

\* line 94: parse_operand = !parse_operand
toggle(p) == ~p

\* ------------------------------------------------------------------------
\* Input lines
\* ------------------------------------------------------------------------

RECURSIVE SeqsOf(_, _)
SeqsOf(S, n) ==
    IF n = 0 THEN {<<>>}
    ELSE {Append(s, x) : s \in SeqsOf(S, n - 1), x \in S}

\* tokens of the lines of at most MaxTokens tokens; each is invalid in at
\* least one position
AnyTokens ==
    {<<"0">>, <<"1", ".", "5">>, <<".">>, <<".", ".">>,
     <<"+">>, <<"/">>, <<"+", "+">>}

\* operand tokens of the well-formed expressions
ExprOperands == {<<"0">>, <<"3">>}

ExprOperators == {<<c>> : c \in OperatorChars}

\* x0 op0 x1 ... op(n-2) x(n-1) as a token sequence
Interleave(xs, os) ==
    [k \in 1 .. Len(xs) + Len(os) |->
        IF k % 2 = 1 THEN xs[(k + 1) \div 2] ELSE os[k \div 2]]

ExprLines ==
    UNION {{Interleave(xs, os) : xs \in SeqsOf(ExprOperands, n),
                                 os \in SeqsOf(ExprOperators, n - 1)}
           : n \in 1 .. MaxOperands}

TokenLines == UNION {SeqsOf(AnyTokens, n) : n \in 0 .. MaxTokens}

\* the example lines of the program's description
ExampleLines ==
    {<<<<"3">>, <<".", ".">>, <<"4">>, <<"+">>, <<"5">>>>,
     <<<<"1", "0">>, <<"-">>, <<"3">>, <<"-">>, <<"2">>>>,
     <<<<"2">>, <<"+">>, <<"3">>, <<"*">>, <<"4">>>>,
     <<<<"2">>, <<"*">>, <<"3">>, <<"+">>, <<"4">>>>,
     <<<<"5">>, <<"/">>, <<"0">>>>,
     <<<<"3">>, <<"+">>>>}

Lines == TokenLines \cup ExprLines \cup ExampleLines

\* what main's variable result holds when evalExpression is called: the value
\* a previous call stored, or the indeterminate value of the uninitialized
\* local of line 156
PrevResults == {Zero, <<7, 1>>}

\* ------------------------------------------------------------------------
\* State
\* ------------------------------------------------------------------------

VARIABLES
    tokens,          \* the tokens strtok yields from exp, in order
    pos,             \* 0-based index of the token strtok last returned
    operands,        \* double* operands
    operators,       \* char* operators
    evaluated,       \* bool* evaluated
    parse_operand,
    error_occurred,
    i,               \* the index of the for loop of line 113
    result,          \* the caller's *result
    retval,          \* the value returned, once pc = "done"
    output,          \* the messages printed, in order
    selected,        \* history: the op_dex of each iteration of line 116
    pc

vars == <<tokens, pos, operands, operators, evaluated, parse_operand,
          error_occurred, i, result, retval, output, selected, pc>>

num_operands == Len(operands)
num_operators == Len(operators)

Init ==
    /\ tokens \in Lines
    /\ result \in PrevResults
    /\ pos = 0
    /\ operands = <<>>
    /\ operators = <<>>
    /\ evaluated = <<>>
    /\ parse_operand = TRUE
    /\ error_occurred = FALSE
    /\ i = 0
    /\ retval = FALSE
    /\ output = <<>>
    /\ selected = <<>>
    /\ pc = "parse"

\* ------------------------------------------------------------------------
\* evalExpression
\* ------------------------------------------------------------------------

\* lines 54-95, one iteration: token = tokens[pos]
ParseToken ==
    /\ pc = "parse"
    /\ pos < Len(tokens)
    /\ LET token == At(tokens, pos) IN
       IF parse_operand
       THEN IF ~validOperand(token)
            THEN /\ output' = Append(output, <<"Invalid operand", token>>)
                 /\ error_occurred' = TRUE
                 /\ pc' = "check"
                 /\ UNCHANGED <<operands, operators, pos, parse_operand>>
            ELSE /\ operands' = Append(operands, atof(token))
                 /\ pos' = pos + 1
                 /\ parse_operand' = toggle(parse_operand)
                 /\ UNCHANGED <<operators, output, error_occurred, pc>>
       ELSE IF ~validOperator(token)
            THEN /\ output' = Append(output, <<"Invalid operator", token>>)
                 /\ error_occurred' = TRUE
                 /\ pc' = "check"
                 /\ UNCHANGED <<operands, operators, pos, parse_operand>>
            ELSE /\ operators' = Append(operators, At(token, 0))
                 /\ pos' = pos + 1
                 /\ parse_operand' = toggle(parse_operand)
                 /\ UNCHANGED <<operands, output, error_occurred, pc>>
    /\ UNCHANGED <<tokens, evaluated, i, result, retval, selected>>

\* line 54 when strtok has returned NULL
ParseEnd ==
    /\ pc = "parse"
    /\ pos >= Len(tokens)
    /\ pc' = "check"
    /\ UNCHANGED <<tokens, pos, operands, operators, evaluated, parse_operand,
                   error_occurred, i, result, retval, output, selected>>

\* lines 97-111: the count check, calloc of the markers, the test of line 111
CheckCount ==
    /\ pc = "check"
    /\ LET missing == missingLastOperand(error_occurred, num_operands,
                                         num_operators)
       IN  /\ output' = IF missing
                        THEN Append(output, <<"Missing last operand", <<>>>>)
                        ELSE output
           /\ error_occurred' = (error_occurred \/ missing)
           /\ pc' = IF error_occurred \/ missing THEN "free" ELSE "fold"
    /\ evaluated' = [j \in 1 .. num_operands |-> FALSE]
    /\ i' = 0
    /\ UNCHANGED <<tokens, pos, operands, operators, parse_operand, result,
                   retval, selected>>

\* lines 115-137: one iteration of the while loop that finds an operator
FoldStep ==
    /\ pc = "fold"
    /\ i < 4
    /\ Len(selected) < num_operators + MaxExtraSteps
    /\ LET op_curr  == At(order_of_ops, i)
           op_dex   == indexOfOp(operators, op_curr, num_operators)
           temp_val == applyOp(At(operands, op_dex), At(operands, op_dex + 1),
                               op_curr)
       IN  /\ op_dex # -1
           /\ selected' = Append(selected, op_dex)
           /\ IF temp_val = DBL_MAX
              THEN /\ output' = Append(output, <<"Divide by zero error", <<>>>>)
                   /\ error_occurred' = TRUE
                   /\ pc' = "store"
                   /\ UNCHANGED <<operands, operators, evaluated>>
              ELSE /\ evaluated' = markEvaluated(evaluated, op_dex)
                   /\ operands' = propagate(operands, evaluated', op_dex,
                                            temp_val)
                   /\ operators' = consume(operators, op_dex)
                   /\ UNCHANGED <<output, error_occurred, pc>>
    /\ UNCHANGED <<tokens, pos, parse_operand, i, result, retval>>

\* lines 116, 138-141, 113: no operator of this tier is left, i++
NextTier ==
    /\ pc = "fold"
    /\ i < 4
    /\ indexOfOp(operators, At(order_of_ops, i), num_operators) = -1
    /\ i' = i + 1
    /\ pc' = IF i + 1 < 4 THEN "fold" ELSE "store"
    /\ UNCHANGED <<tokens, pos, operands, operators, evaluated, parse_operand,
                   error_occurred, result, retval, output, selected>>

\* line 143
StoreResult ==
    /\ pc = "store"
    /\ result' = IF error_occurred THEN Zero ELSE At(operands, 0)
    /\ pc' = "free"
    /\ UNCHANGED <<tokens, pos, operands, operators, evaluated, parse_operand,
                   error_occurred, i, retval, output, selected>>

\* lines 146-150
Return ==
    /\ pc = "free"
    /\ operands' = <<>>
    /\ operators' = <<>>
    /\ evaluated' = <<>>
    /\ retval' = ~error_occurred
    /\ pc' = "done"
    /\ UNCHANGED <<tokens, pos, parse_operand, error_occurred, i, result,
                   output, selected>>

Next ==
    \/ ParseToken
    \/ ParseEnd
    \/ CheckCount
    \/ FoldStep
    \/ NextTier
    \/ StoreResult
    \/ Return

Spec == Init /\ [][Next]_vars

\* ------------------------------------------------------------------------
\* Vocabulary of the properties, read off the input line
\* ------------------------------------------------------------------------

\* the validity check of position p (0-based): operand at even positions
PositionValid(p) ==
    IF p % 2 = 0 THEN validOperand(At(tokens, p))
    ELSE validOperator(At(tokens, p))

BadPositions == {p \in 0 .. Len(tokens) - 1 : ~PositionValid(p)}

AllValid == BadPositions = {}

FirstBad == CHOOSE p \in BadPositions : \A q \in BadPositions : p <= q

\* alternating valid operands and operators, ending in an operand
WellFormed == AllValid /\ Len(tokens) % 2 = 1

NumOps == Len(tokens) \div 2

\* the operand values x0 .. xN and operator symbols op0 .. opN-1, 1-based
Vals == [k \in 1 .. NumOps + 1 |-> atof(tokens[2 * k - 1])]
Ops == [k \in 1 .. NumOps |-> tokens[2 * k][1]]

\* '/' with a right-hand operand token of value 0
ZeroDivisorAt(k) == Ops[k] = "/" /\ Vals[k + 1] = Zero

HasZeroDivisor == \E k \in 1 .. NumOps : ZeroDivisorAt(k)

Arith(a, b, op) ==
    CASE op = "+" -> RatAdd(a, b)
      [] op = "-" -> RatSub(a, b)
      [] op = "*" -> RatMul(a, b)
      [] op = "/" -> RatDiv(a, b)

\* ((x0 op0 x1) op1 x2) ... over the first n operators
RECURSIVE LeftFold(_, _, _)
LeftFold(xs, os, n) ==
    IF n = 0 THEN xs[1]
    ELSE Arith(LeftFold(xs, os, n - 1), xs[n + 1], os[n])

\* the value under two-tier precedence: sum is the value of the terms
\* closed so far, sign the '+' or '-' in front of the open term, term the
\* product or quotient being accumulated left to right
RECURSIVE TwoTier(_, _, _, _, _, _)
TwoTier(xs, os, k, sum, sign, term) ==
    IF k > Len(os) THEN Arith(sum, term, sign)
    ELSE IF os[k] \in {"*", "/"}
         THEN TwoTier(xs, os, k + 1, sum, sign, Arith(term, xs[k + 1], os[k]))
         ELSE TwoTier(xs, os, k + 1, Arith(sum, term, sign), os[k], xs[k + 1])

StdValue == TwoTier(Vals, Ops, 1, Zero, "+", Vals[1])

Printed(msg) == \E k \in 1 .. Len(output) : output[k][1] = msg

Last(s) == s[Len(s)]

\* ------------------------------------------------------------------------
\* C1
\* ------------------------------------------------------------------------

\* C1: a well-formed expression without a division by zero evaluates
\* successfully to its value under two-tier precedence, left to right within
\* a tier.
C1_StandardPrecedence ==
    (pc = "done" /\ WellFormed /\ ~HasZeroDivisor)
        => (retval /\ result = StdValue)

\* ------------------------------------------------------------------------
\* C2
\* ------------------------------------------------------------------------

\* C2: a well-formed expression whose operators are only '+' and '-'
\* evaluates to the strict left-to-right fold of its operands.
C2_AddSubLeftFold ==
    (pc = "done" /\ WellFormed /\ \A k \in 1 .. NumOps : Ops[k] \in {"+", "-"})
        => (retval /\ result = LeftFold(Vals, Ops, NumOps))

\* ------------------------------------------------------------------------
\* C3
\* ------------------------------------------------------------------------

\* C3: whenever evalExpression returns false the caller's result location
\* holds 0.0, whatever it held before the call.
C3_ZeroOnFailure ==
    (pc = "done" /\ ~retval) => result = Zero

\* ------------------------------------------------------------------------
\* C4
\* ------------------------------------------------------------------------

\* C4: a well-formed expression containing a '/' whose right-hand operand
\* token is 0 fails with the divide-by-zero error and returns false.
C4_DivByZeroFails ==
    (pc = "done" /\ WellFormed /\ HasZeroDivisor)
        => (~retval /\ output = <<<<"Divide by zero error", <<>>>>>>)

\* ------------------------------------------------------------------------
\* C5
\* ------------------------------------------------------------------------

\* C5: when some token fails the check of its position, exactly one error is
\* reported, for the leftmost such token and with the category of its
\* position; no later token is examined, no missing-operand error is added,
\* no operator is applied and the call returns false.
C5_FirstInvalidTokenOnly ==
    (pc = "done" /\ ~AllValid)
        => /\ output = <<<<IF FirstBad % 2 = 0 THEN "Invalid operand"
                          ELSE "Invalid operator", At(tokens, FirstBad)>>>>
           /\ pos = FirstBad
           /\ selected = <<>>
           /\ ~retval

\* an invalid token with valid tokens before it and a token after it
C5_Witness ==
    /\ pc = "done"
    /\ ~AllValid
    /\ FirstBad = 2
    /\ Len(tokens) = 4
    /\ output = <<<<"Invalid operand", At(tokens, 2)>>>>

\* ------------------------------------------------------------------------
\* C6
\* ------------------------------------------------------------------------

DotsLine == <<<<"3">>, <<".", ".">>, <<"4">>, <<"+">>, <<"5">>>>

MultiDot(str) == Cardinality({k \in 1 .. Len(str) : str[k] = "."}) > 1

\* C6 as stated: the line 3 .. 4 + 5 fails with the invalid-operand error
\* naming "..".
C6_DotsInvalidOperand ==
    (pc = "done" /\ tokens = DotsLine)
        => output = <<<<"Invalid operand", <<".", ".">>>>>>

\* C6 as amended: the line 3 .. 4 + 5 fails with the invalid-operator error
\* naming "..", because ".." stands in an operator position; a token with
\* more than one '.' that is the first invalid token of a line is reported
\* with the category of its position.
C6_DotsByPosition ==
    /\ (pc = "done" /\ tokens = DotsLine)
          => (output = <<<<"Invalid operator", <<".", ".">>>>>> /\ ~retval)
    /\ (pc = "done" /\ ~AllValid /\ MultiDot(At(tokens, FirstBad)))
          => output = <<<<IF FirstBad % 2 = 0 THEN "Invalid operand"
                         ELSE "Invalid operator", At(tokens, FirstBad)>>>>

C6_Witness ==
    /\ pc = "done"
    /\ tokens = DotsLine
    /\ pos = 1
    /\ Printed("Invalid operator")

\* ------------------------------------------------------------------------
\* C7
\* ------------------------------------------------------------------------

EnteredFold == pc \in {"fold", "store"} \/ i = 4 \/ selected # <<>>

\* C7: when every token passes the check of its position, the count check
\* fails exactly when the number of tokens is even (the empty line
\* included): then only the missing-operand error is reported, no operator
\* is applied and the call returns false; a line with an odd number of
\* tokens proceeds to the fold.
C7_MissingFinalOperand ==
    AllValid =>
        /\ pc = "check"
              => ((num_operands - num_operators # 1) <=> Len(tokens) % 2 = 0)
        /\ (pc \notin {"parse", "check"} /\ Len(tokens) % 2 = 0)
              => /\ output = <<<<"Missing last operand", <<>>>>>>
                 /\ error_occurred
                 /\ ~EnteredFold
                 /\ pc = "done" => ~retval
        /\ (pc \notin {"parse", "check"} /\ Len(tokens) % 2 = 1)
              => (EnteredFold /\ ~Printed("Missing last operand"))

\* a line ending in an operator has been rejected
C7_Witness ==
    /\ pc = "done"
    /\ AllValid
    /\ Len(tokens) = 2
    /\ output = <<<<"Missing last operand", <<>>>>>>
    /\ ~retval

\* ------------------------------------------------------------------------
\* C8
\* ------------------------------------------------------------------------

\* slot j is joined to slot d or d + 1 through consumed operators (0-based)
InGroup(j, d) ==
    \/ j <= d /\ \A k \in j .. d - 1 : At(operators, k) = NUL
    \/ j >= d + 1 /\ \A k \in d + 1 .. j - 1 : At(operators, k) = NUL

\* C8: a fold step at slot d changes only operand slots of the group of d
\* and d + 1; the slots of every other group keep their value.
C8_FoldFrame ==
    [][FoldStep =>
        LET d == indexOfOp(operators, At(order_of_ops, i), num_operators)
        IN  \A j \in 0 .. num_operands - 1 :
              ~InGroup(j, d) => At(operands', j) = At(operands, j)]_vars

\* ------------------------------------------------------------------------
\* C9
\* ------------------------------------------------------------------------

NoRepeat(s) == \A a, b \in 1 .. Len(s) : a # b => s[a] # s[b]

C9_Safety ==
    WellFormed =>
        /\ NoRepeat(selected)
        /\ (pc = "free" /\ ~error_occurred)
              => /\ Len(selected) = NumOps
                 /\ {selected[k] : k \in 1 .. Len(selected)} = 0 .. NumOps - 1
                 /\ \A k \in 0 .. NumOps - 1 : At(operators, k) = NUL
        /\ Printed("Divide by zero error")
              => /\ pc \in {"store", "free", "done"}
                 /\ Ops[Last(selected) + 1] = "/"

\* the work left in the fold: operators not yet consumed, tiers not yet done
Rank ==
    Cardinality({k \in 1 .. num_operators : operators[k] # NUL}) + (4 - i)

\* C9: for a validated expression the fold terminates (every step that stays
\* in the fold lowers Rank) and no consumed operator is selected again: on
\* success each operator has been applied exactly once and every operator
\* slot holds the sentinel; on a divide-by-zero the failing '/' is the last
\* operator selected.
C9_FoldTerminates ==
    /\ []C9_Safety
    /\ [][(WellFormed /\ pc = "fold") => (pc' # "fold" \/ Rank' < Rank)]_vars

\* a fold of three operators has completed
C9_Witness ==
    /\ pc = "free"
    /\ ~error_occurred
    /\ Len(selected) = 3
    /\ \A k \in 0 .. 2 : At(operators, k) = NUL

\* ------------------------------------------------------------------------
\* C10
\* ------------------------------------------------------------------------

Uniform == \A k \in 1 .. NumOps : Ops[k] = Ops[1]

\* C10: in a chain of one operator symbol without a zero divisor every fold
\* step sees the updated left operand, the result is the strict
\* left-to-right fold, and on success every operand slot holds it.
C10_UniformChain ==
    (WellFormed /\ Uniform /\ ~HasZeroDivisor) =>
        /\ pc = "fold"
              => \A j \in 0 .. Len(selected) :
                    At(operands, j) = LeftFold(Vals, Ops, Len(selected))
        /\ pc = "free"
              => /\ ~error_occurred
                 /\ result = LeftFold(Vals, Ops, NumOps)
                 /\ \A j \in 0 .. NumOps :
                       At(operands, j) = LeftFold(Vals, Ops, NumOps)

\* a chain of two divisions has been folded
C10_Witness ==
    /\ pc = "free"
    /\ WellFormed
    /\ NumOps = 2
    /\ Ops = <<"/", "/">>
    /\ result = <<1, 3>>

====
